---- MODULE Spec2Model ----
(***************************************************************************)
(* BemfaProtocol: the session controller that performs a hello handshake   *)
(* over MQTT, owns the UDP handle, and tears the channel down on goodbye.  *)
(*                                                                         *)
(* The repository holds two variants of bemfa_protocol.cc:                 *)
(*   "full": src/unnamed/part_000 (hello handshake, ParseServerHello,      *)
(*           publishes to publish_topic_ + "/set")                         *)
(*   "bare": src/main/protocols/bemfa_protocol.cc (no handshake, no        *)
(*           ParseServerHello, publishes to publish_topic_ itself)         *)
(* `variant` selects which one a behaviour runs.                           *)
(*                                                                         *)
(* Three execution contexts are modelled: the owning (caller) context that *)
(* runs Start / OpenAudioChannel / CloseAudioChannel and the tasks queued  *)
(* by Application::Schedule (position cpc); the MQTT delivery context that *)
(* runs the OnMessage lambda (position d_pc); and an observer context that *)
(* calls IsAudioChannelOpened.                                             *)
(***************************************************************************)
EXTENDS Integers, Sequences, FiniteSets, TLC

VARIABLES variant, mqtt_, udp_, channel_mutex_, error_occurred_, session_id_, hello_event, server_audio_, udp_server_, udp_port_, aes_key_, aes_nonce_, local_sequence_, remote_sequence_, since_last_incoming, on_closed_registered, on_incoming_json_, own_goodbye, cpc, open_call, close_call, last_op, scheduled, d_pc, dmsg, hello_parsed, hello_signals, faulted, observed, hex_string, decoded, hex_done

ctrlvars == <<mqtt_, udp_, channel_mutex_, error_occurred_, session_id_, hello_event>>

sessvars == <<server_audio_, udp_server_, udp_port_, aes_key_, aes_nonce_, local_sequence_, remote_sequence_>>

callvars == <<cpc, open_call, close_call, last_op, scheduled>>

delivvars == <<d_pc, dmsg, hello_parsed, hello_signals>>

envvars == <<variant, on_closed_registered, on_incoming_json_, own_goodbye, since_last_incoming, faulted, observed>>

hexvars == <<hex_string, decoded, hex_done>>

vars == <<ctrlvars, sessvars, callvars, delivvars, envvars, hexvars>>

(***************************************************************************)
(* Bounds of the model.                                                    *)
(***************************************************************************)
\* Longest hex string enumerated exhaustively for DecodeHexString.
MaxHexLen == 3

\* Most CloseAudioChannel tasks pending in the application's queue.
MaxSched == 1

\* Ticks of the abstract clock after which IsTimeout() turns true.
LivenessWindow == 0

MaxElapsed == LivenessWindow + 1

(***************************************************************************)
(* Hex decoding.  Strings are sequences of character codes.                *)
(***************************************************************************)
\* Character codes the decoder is exercised on:
\* / 0 1 2 9 : @ A B C F G ` a f g
HexAlphabet == {47, 48, 49, 50, 57, 58, 64, 65, 66, 67, 70, 71, 96, 97, 102, 103}

\* "0A1B2C"
Str0A1B2C == <<48, 65, 49, 66, 50, 67>>

\* A plausible slip: the lower-case branch is missing.
CharToHexNoLower(c) ==
    IF c >= 48 /\ c <= 57 THEN c - 48
    ELSE IF c >= 65 /\ c <= 70 THEN c - 65 + 10
    ELSE 0

CharToHex(c) ==
    IF c >= 48 /\ c <= 57 THEN c - 48
    ELSE IF c >= 65 /\ c <= 70 THEN c - 65 + 10
    ELSE IF c >= 97 /\ c <= 102 THEN c - 97 + 10
    ELSE 0

RECURSIVE BitOr(_, _)
BitOr(a, b) ==
    IF a = 0 THEN b
    ELSE IF b = 0 THEN a
    ELSE (IF a % 2 = 1 \/ b % 2 = 1 THEN 1 ELSE 0) + 2 * BitOr(a \div 2, b \div 2)

\* hex_string[i] with i counted from 0; hex_string[size()] is the
\* terminating NUL that std::string::operator[] yields.
CharAt(s, i) == IF i < Len(s) THEN s[i + 1] ELSE 0

\* A plausible slip: the loop stops when no full pair of characters is left.
RECURSIVE DecodeLoopDropsOddTail(_, _)
DecodeLoopDropsOddTail(s, i) ==
    IF i + 1 < Len(s)
    THEN <<BitOr((CharToHex(CharAt(s, i)) * 16) % 256, CharToHex(CharAt(s, i + 1)))>> \o DecodeLoopDropsOddTail(s, i + 2)
    ELSE <<>>

RECURSIVE DecodeLoop(_, _)
DecodeLoop(s, i) ==
    IF i < Len(s)
    THEN <<BitOr((CharToHex(CharAt(s, i)) * 16) % 256, CharToHex(CharAt(s, i + 1)))>> \o DecodeLoop(s, i + 2)
    ELSE <<>>

DecodeHexString(s) == DecodeLoop(s, 0)

RECURSIVE StringsUpTo(_)
StringsUpTo(n) ==
    IF n = 0 THEN {<<>>}
    ELSE LET shorter == StringsUpTo(n - 1)
         IN shorter \cup {Append(s, c) : s \in {t \in shorter : Len(t) = n - 1}, c \in HexAlphabet}

HexInputs == StringsUpTo(MaxHexLen) \cup {Str0A1B2C}

(***************************************************************************)
(* Inbound signaling messages (the parsed JSON, field by field).           *)
(*   type:      "unparsable" (cJSON_Parse fails), "notype", "hello",       *)
(*              "goodbye", "other"                                         *)
(*   transport: "none" (field absent), "udp", "tcp"                        *)
(*   sid:       "none" (field absent) or the session_id string             *)
(*   ap:        whether audio_params (sample_rate, frame_duration) is there*)
(*   udp:       "none" (object absent), "noserver" / "nokey" (object with  *)
(*              that field missing), or the name of a complete endpoint    *)
(***************************************************************************)
SessionIds == {"", "s1"}

\* Complete "udp" objects a hello can carry: server, port, key (hex), nonce (hex).
Endpoints == {"e1"}

EndpointServer(e) == IF e = "e1" THEN "h1" ELSE "h2"

EndpointPort(e) == IF e = "e1" THEN 8001 ELSE 8002

\* key: "0A1B" or "fG" (with a malformed digit)
EndpointKey(e) == IF e = "e1" THEN <<48, 65, 49, 66>> ELSE <<102, 71>>

\* nonce: "2C" or "a9"
EndpointNonce(e) == IF e = "e1" THEN <<50, 67>> ELSE <<97, 57>>

Msg(t, tr, s, a, u) == [type |-> t, transport |-> tr, sid |-> s, ap |-> a, udp |-> u]

NoMsg == Msg("nomsg", "none", "none", FALSE, "none")

HelloMsgs ==
    {Msg("hello", tr, "s1", TRUE, "e1") : tr \in {"none", "tcp"}}
    \cup {Msg("hello", "udp", s, s # "none", u) : s \in {"none", "s1"}, u \in {"none", "noserver", "nokey"} \cup Endpoints}

GoodbyeMsgs == {Msg("goodbye", "none", s, FALSE, "none") : s \in {"none"} \cup SessionIds}

Inbound ==
    {Msg(t, "none", "none", FALSE, "none") : t \in {"unparsable", "notype", "other"}}
    \cup HelloMsgs \cup GoodbyeMsgs

(***************************************************************************)
(* Initial state: the controller right after construction.                 *)
(***************************************************************************)
\* Values an uninitialised uint32_t member may hold.
UninitSeq == {0, 5}

NoOpenCall == [ret |-> "none", fail |-> "none", waited |-> FALSE, connects |-> 0, pubs |-> 0, signaled |-> FALSE]

\* by: "call" when the owner called CloseAudioChannel, "task" when a task queued
\* by Schedule() runs it.
NoCloseCall == [pub |-> "none", sid |-> "", notified |-> FALSE, nth |-> 0, by |-> "none"]

InitController ==
    /\ variant \in {"full", "bare"}
    /\ mqtt_ = "null"
    /\ udp_ = "null"
    /\ channel_mutex_ = "free"
    /\ error_occurred_ = FALSE
    /\ session_id_ = ""
    /\ hello_event = FALSE
    /\ server_audio_ = <<0, 0>>
    /\ udp_server_ = ""
    /\ udp_port_ = 0
    /\ aes_key_ = <<>>
    /\ aes_nonce_ = <<>>
    /\ local_sequence_ \in UninitSeq
    /\ remote_sequence_ = local_sequence_
    /\ since_last_incoming = 0
    /\ on_closed_registered \in BOOLEAN
    /\ on_incoming_json_ \in BOOLEAN
    /\ own_goodbye = NoMsg
    /\ cpc = "idle"
    /\ open_call = NoOpenCall
    /\ close_call = NoCloseCall
    /\ last_op = "none"
    /\ scheduled = 0
    /\ d_pc = "idle"
    /\ dmsg = NoMsg
    /\ hello_parsed = FALSE
    /\ hello_signals = 0
    /\ faulted = FALSE
    /\ observed = "none"

Init ==
    /\ InitController
    /\ hex_string = <<>>
    /\ decoded = <<>>
    /\ hex_done = FALSE

(***************************************************************************)
(* Helpers shared by the operations.                                       *)
(***************************************************************************)
\* Protocol::IsTimeout(): the liveness window since last_incoming_time_ has elapsed.
IsTimeout == since_last_incoming > LivenessWindow

\* A plausible slip: the error flag is not consulted.
IsAudioChannelOpenedIgnoresError == udp_ # "null" /\ ~IsTimeout

IsAudioChannelOpened == udp_ # "null" /\ ~error_occurred_ /\ ~IsTimeout

\* Outcomes of StartMqttClient: CreateMqtt() returns null, Connect() fails, or
\* the client connects and subscribes.
StartOutcomes == {"create_fail", "connect_fail", "ok"}

MqttAfterStart(outcome) ==
    CASE outcome = "create_fail" -> "null"
      [] outcome = "connect_fail" -> "disconnected"
      [] OTHER -> "connected"

\* What mqtt_->Publish can answer: anything on a connected client, failure otherwise.
PublishOutcomes == IF mqtt_ = "connected" THEN BOOLEAN ELSE {FALSE}

\* SendText(text): "noclient" (mqtt_ is null, nothing handed to the transport),
\* "failed" (Publish returned false) or "sent".  publish_topic_ is never empty.
SendText(pubok) ==
    IF mqtt_ = "null" THEN "noclient"
    ELSE IF ~pubok THEN "failed"
    ELSE "sent"

\* Whether SendText publishes to a topic the client itself subscribes to:
\* StartMqttClient subscribes publish_topic_; the bare variant publishes to
\* publish_topic_, the full one to publish_topic_ + "/set".
PublishTopicSubscribed == variant = "bare"

\* Protocol::SetError(message) raises error_occurred_.
ErrorAfterSetError == TRUE

(***************************************************************************)
(* Owning context: Start and OpenAudioChannel.                             *)
(***************************************************************************)
Start ==
    /\ ~faulted
    /\ cpc = "idle"
    /\ \E outcome \in StartOutcomes : mqtt_' = MqttAfterStart(outcome)
    /\ last_op' = "start"
    /\ open_call' = NoOpenCall
    /\ close_call' = NoCloseCall
    /\ UNCHANGED <<udp_, channel_mutex_, error_occurred_, session_id_, hello_event>>
    /\ UNCHANGED <<cpc, scheduled>>
    /\ UNCHANGED <<sessvars, delivvars, envvars, hexvars>>

\* if (mqtt_ == nullptr || !mqtt_->IsConnected()) { if (!StartMqttClient(true)) return false; }
OpenAudioChannelEnter ==
    /\ ~faulted
    /\ cpc = "idle"
    /\ last_op' = "open"
    /\ IF mqtt_ # "connected"
       THEN \E outcome \in StartOutcomes :
              /\ mqtt_' = MqttAfterStart(outcome)
              /\ cpc' = IF outcome = "ok" THEN "o_reset" ELSE "idle"
              /\ open_call' = [NoOpenCall EXCEPT !.connects = 1,
                                                 !.fail = IF outcome = "ok" THEN "none" ELSE "connect",
                                                 !.ret = IF outcome = "ok" THEN "none" ELSE "false"]
       ELSE /\ mqtt_' = mqtt_
            /\ cpc' = "o_reset"
            /\ open_call' = NoOpenCall
    /\ close_call' = NoCloseCall
    /\ UNCHANGED <<udp_, channel_mutex_, error_occurred_, session_id_, hello_event>>
    /\ UNCHANGED scheduled
    /\ UNCHANGED <<sessvars, delivvars, envvars, hexvars>>

\* error_occurred_ = false; session_id_ = ""; xEventGroupClearBits(...).
\* The bare variant returns true right here.
OpenReset ==
    /\ ~faulted
    /\ cpc = "o_reset"
    /\ error_occurred_' = FALSE
    /\ session_id_' = ""
    /\ hello_event' = FALSE
    /\ open_call' = [open_call EXCEPT !.signaled = FALSE,
                                      !.ret = IF variant = "bare" THEN "true" ELSE "none"]
    /\ cpc' = IF variant = "bare" THEN "idle" ELSE "o_send"
    /\ UNCHANGED <<mqtt_, udp_, channel_mutex_>>
    /\ UNCHANGED <<close_call, last_op, scheduled>>
    /\ UNCHANGED <<sessvars, delivvars, envvars, hexvars>>

\* A plausible slip: the result of SendText is ignored, as CloseAudioChannel does.
OpenAfterSendTextIgnored(result) == "o_wait"

\* if (!SendText(message)) return false;
OpenAfterSendText(result) == IF result = "sent" THEN "o_wait" ELSE "idle"

OpenSendHello ==
    /\ ~faulted
    /\ cpc = "o_send"
    /\ \E pubok \in PublishOutcomes :
         LET result == SendText(pubok)
             next == OpenAfterSendText(result)
         IN /\ cpc' = next
            /\ open_call' = [open_call EXCEPT !.pubs = @ + (IF result = "noclient" THEN 0 ELSE 1),
                                              !.fail = IF result = "sent" THEN @ ELSE "publish",
                                              !.ret = IF next = "idle" THEN "false" ELSE @,
                                              !.waited = (next = "o_wait")]
    /\ UNCHANGED <<ctrlvars, close_call, last_op, scheduled>>
    /\ UNCHANGED <<sessvars, delivvars, envvars, hexvars>>

\* xEventGroupWaitBits returns with the bit set (and clears it on exit).
OpenWaitSignaled ==
    /\ ~faulted
    /\ cpc = "o_wait"
    /\ hello_event
    /\ hello_event' = FALSE
    /\ open_call' = [open_call EXCEPT !.ret = "true"]
    /\ cpc' = "idle"
    /\ UNCHANGED <<mqtt_, udp_, channel_mutex_, error_occurred_, session_id_>>
    /\ UNCHANGED <<close_call, last_op, scheduled>>
    /\ UNCHANGED <<sessvars, delivvars, envvars, hexvars>>

\* A plausible slip: the wait only sees a signal raised while it is waiting, so a
\* bit that is already set when the wait starts is missed.
OpenWaitTimeoutMissesSetBit ==
    /\ ~faulted
    /\ cpc = "o_wait"
    /\ error_occurred_' = ErrorAfterSetError
    /\ open_call' = [open_call EXCEPT !.ret = "false", !.fail = "timeout"]
    /\ cpc' = "idle"
    /\ UNCHANGED <<mqtt_, udp_, channel_mutex_, session_id_, hello_event>>
    /\ UNCHANGED <<close_call, last_op, scheduled>>
    /\ UNCHANGED <<sessvars, delivvars, envvars, hexvars>>

\* The 10 000 ms deadline passes with the bit still clear: SetError, return false.
OpenWaitTimeout ==
    /\ ~faulted
    /\ cpc = "o_wait"
    /\ ~hello_event
    /\ error_occurred_' = ErrorAfterSetError
    /\ open_call' = [open_call EXCEPT !.ret = "false", !.fail = "timeout"]
    /\ cpc' = "idle"
    /\ UNCHANGED <<mqtt_, udp_, channel_mutex_, session_id_, hello_event>>
    /\ UNCHANGED <<close_call, last_op, scheduled>>
    /\ UNCHANGED <<sessvars, delivvars, envvars, hexvars>>

\* The datagram handle is created, under channel_mutex_, once the open call
\* has succeeded; the creation itself may fail.
CreateUdp ==
    /\ ~faulted
    /\ cpc = "idle"
    /\ last_op = "open"
    /\ open_call.ret = "true"
    /\ channel_mutex_ = "free"
    /\ \E ok \in BOOLEAN :
         /\ udp_' = IF ok THEN "live" ELSE "null"
         /\ last_op' = IF ok THEN "create_ok" ELSE "create_fail"
    /\ open_call' = NoOpenCall
    /\ UNCHANGED <<mqtt_, channel_mutex_, error_occurred_, session_id_, hello_event>>
    /\ UNCHANGED <<cpc, close_call, scheduled>>
    /\ UNCHANGED <<sessvars, delivvars, envvars, hexvars>>

(***************************************************************************)
(* Owning context: CloseAudioChannel, called directly or as a queued task. *)
(***************************************************************************)
\* std::lock_guard<std::mutex> lock(channel_mutex_);
CloseEnter(by) ==
    /\ channel_mutex_ = "free"
    /\ channel_mutex_' = "caller"
    /\ cpc' = "c_locked"
    /\ close_call' = [NoCloseCall EXCEPT !.nth = IF last_op = "close" THEN 2 ELSE 1, !.by = by]
    /\ last_op' = "close"
    /\ open_call' = NoOpenCall
    /\ UNCHANGED <<mqtt_, udp_, error_occurred_, session_id_, hello_event>>
    /\ UNCHANGED <<sessvars, delivvars, envvars, hexvars>>

CloseAudioChannel ==
    /\ ~faulted
    /\ cpc = "idle"
    /\ CloseEnter("call")
    /\ UNCHANGED scheduled

\* The application's main loop runs a task queued by Schedule().
RunScheduled ==
    /\ ~faulted
    /\ cpc = "idle"
    /\ scheduled > 0
    /\ scheduled' = scheduled - 1
    /\ CloseEnter("task")

\* if (udp_ != nullptr) { delete udp_; ...   (the object is destroyed, the
\* pointer still holds its address), else leave the lock scope.
CloseCheckAndDelete ==
    /\ ~faulted
    /\ cpc = "c_locked"
    /\ IF udp_ # "null"
       THEN /\ udp_' = "dangling"
            /\ cpc' = "c_null"
            /\ UNCHANGED channel_mutex_
       ELSE /\ udp_' = udp_
            /\ cpc' = "c_send"
            /\ channel_mutex_' = "free"
    /\ UNCHANGED <<mqtt_, error_occurred_, session_id_, hello_event>>
    /\ UNCHANGED <<open_call, close_call, last_op, scheduled>>
    /\ UNCHANGED <<sessvars, delivvars, envvars, hexvars>>

\* A plausible slip: the pointer is not reset after the delete.
CloseNullKeepsPointer ==
    /\ ~faulted
    /\ cpc = "c_null"
    /\ cpc' = "c_send"
    /\ channel_mutex_' = "free"
    /\ UNCHANGED <<mqtt_, udp_, error_occurred_, session_id_, hello_event>>
    /\ UNCHANGED <<open_call, close_call, last_op, scheduled>>
    /\ UNCHANGED <<sessvars, delivvars, envvars, hexvars>>

\* ... udp_ = nullptr; } and the lock scope ends.
CloseNull ==
    /\ ~faulted
    /\ cpc = "c_null"
    /\ udp_' = "null"
    /\ cpc' = "c_send"
    /\ channel_mutex_' = "free"
    /\ UNCHANGED <<mqtt_, error_occurred_, session_id_, hello_event>>
    /\ UNCHANGED <<open_call, close_call, last_op, scheduled>>
    /\ UNCHANGED <<sessvars, delivvars, envvars, hexvars>>

\* A plausible slip: the goodbye is sent only through a connected client.
GoodbyeSendTextConnectedOnly(pubok) == IF mqtt_ = "connected" THEN SendText(pubok) ELSE "noclient"

\* SendText(message) as CloseAudioChannel calls it (result ignored).
GoodbyeSendText(pubok) == SendText(pubok)

\* message = {"session_id":"<session_id_>","type":"goodbye"}; SendText(message);
\* A goodbye published to the subscribed topic is on its way back from the
\* broker (own_goodbye keeps the latest one).
CloseSendGoodbye ==
    /\ ~faulted
    /\ cpc = "c_send"
    /\ \E pubok \in PublishOutcomes :
         /\ close_call' = [close_call EXCEPT !.pub = GoodbyeSendText(pubok), !.sid = session_id_]
         /\ own_goodbye' = IF PublishTopicSubscribed /\ GoodbyeSendText(pubok) = "sent"
                           THEN Msg("goodbye", "none", session_id_, FALSE, "none")
                           ELSE own_goodbye
    /\ cpc' = "c_notify"
    /\ UNCHANGED <<ctrlvars, open_call, last_op, scheduled>>
    /\ UNCHANGED <<variant, on_closed_registered, on_incoming_json_, since_last_incoming, faulted, observed>>
    /\ UNCHANGED <<sessvars, delivvars, hexvars>>

\* if (on_audio_channel_closed_ != nullptr) on_audio_channel_closed_();
CloseNotify ==
    /\ ~faulted
    /\ cpc = "c_notify"
    /\ close_call' = [close_call EXCEPT !.notified = on_closed_registered]
    /\ cpc' = "idle"
    /\ UNCHANGED <<ctrlvars, open_call, last_op, scheduled>>
    /\ UNCHANGED <<sessvars, delivvars, envvars, hexvars>>

\* ~BemfaProtocol(): mqtt_ is disconnected, deleted and nulled; udp_ is
\* deleted if set (the pointer is not reset and channel_mutex_ is not taken);
\* the event group is deleted.  Nothing runs on the object afterwards.
Destructor ==
    /\ ~faulted
    /\ cpc = "idle"
    /\ d_pc = "idle"
    /\ mqtt_' = "null"
    /\ udp_' = IF udp_ # "null" THEN "dangling" ELSE udp_
    /\ cpc' = "destroyed"
    /\ last_op' = "destroy"
    /\ open_call' = NoOpenCall
    /\ close_call' = NoCloseCall
    /\ UNCHANGED <<channel_mutex_, error_occurred_, session_id_, hello_event>>
    /\ UNCHANGED scheduled
    /\ UNCHANGED <<sessvars, delivvars, envvars, hexvars>>

(***************************************************************************)
(* Observer context and environment.                                       *)
(***************************************************************************)
\* A call of IsAudioChannelOpened() from another context: a lock-free read.
\* observed keeps whether some call answered true on the strength of a
\* pointer whose object CloseAudioChannel had already deleted.
IsAudioChannelOpenedCall ==
    /\ ~faulted
    /\ cpc # "destroyed"
    /\ observed' = IF IsAudioChannelOpened /\ udp_ = "dangling" THEN "open_destroyed"
                   ELSE observed
    /\ UNCHANGED <<variant, on_closed_registered, on_incoming_json_, own_goodbye, since_last_incoming, faulted>>
    /\ UNCHANGED <<ctrlvars, sessvars, callvars, delivvars, hexvars>>

Tick ==
    /\ ~faulted
    /\ cpc # "destroyed"
    /\ since_last_incoming < MaxElapsed
    /\ since_last_incoming' = since_last_incoming + 1
    /\ UNCHANGED <<variant, on_closed_registered, on_incoming_json_, own_goodbye, faulted, observed>>
    /\ UNCHANGED <<ctrlvars, sessvars, callvars, delivvars, hexvars>>

\* A plausible slip: the disconnect callback starts the client again.
OnDisconnectedReconnects ==
    /\ ~faulted
    /\ mqtt_ = "connected"
    /\ \E outcome \in StartOutcomes : mqtt_' = MqttAfterStart(outcome)
    /\ UNCHANGED <<udp_, channel_mutex_, error_occurred_, session_id_, hello_event>>
    /\ UNCHANGED <<sessvars, callvars, delivvars, envvars, hexvars>>

\* The broker connection drops; the OnDisconnected lambda only logs.
OnDisconnected ==
    /\ ~faulted
    /\ mqtt_ = "connected"
    /\ mqtt_' = "disconnected"
    /\ UNCHANGED <<udp_, channel_mutex_, error_occurred_, session_id_, hello_event>>
    /\ UNCHANGED <<sessvars, callvars, delivvars, envvars, hexvars>>

(***************************************************************************)
(* Delivery context: the OnMessage lambda and ParseServerHello.            *)
(***************************************************************************)
\* cJSON_Parse fails, or the message has no "type": log and return.
OnMessageDrop(m) ==
    /\ m.type \in {"unparsable", "notype"}
    /\ UNCHANGED vars

\* A plausible slip: only the presence of the field is checked.
TransportAcceptedIfPresent(m) == m.transport # "none"

\* The negation of (transport == nullptr || strcmp(transport->valuestring, "udp") != 0).
TransportAccepted(m) == m.transport # "none" /\ m.transport = "udp"

\* The handler's tail: cJSON_Delete(root); last_incoming_time_ = now().
LastIncomingUpdated == since_last_incoming' = 0

\* type == "hello" (full variant): ParseServerHello up to the transport check.
\* An accepted hello goes on to be parsed; a rejected one ends the handler.
\* With the field absent the log statement reads transport->valuestring
\* through a null pointer: the build either traps there or, with error
\* logging compiled out, returns.
OnMessageHello(m) ==
    /\ m.type = "hello"
    /\ variant = "full"
    /\ IF TransportAccepted(m)
       THEN /\ d_pc' = "psh_fields"
            /\ dmsg' = m
            /\ UNCHANGED <<faulted, since_last_incoming>>
       ELSE /\ UNCHANGED <<d_pc, dmsg>>
            /\ IF m.transport = "none"
               THEN \/ faulted' = TRUE /\ UNCHANGED since_last_incoming
                    \/ faulted' = FALSE /\ LastIncomingUpdated
               ELSE faulted' = FALSE /\ LastIncomingUpdated
    /\ UNCHANGED <<variant, on_closed_registered, on_incoming_json_, own_goodbye, observed>>
    /\ UNCHANGED <<ctrlvars, sessvars, callvars, hello_parsed, hello_signals, hexvars>>

\* A plausible slip: a goodbye without session_id is not accepted.
GoodbyeMatchesStrict(m) == m.sid # "none" /\ session_id_ = m.sid

\* session_id == nullptr || session_id_ == session_id->valuestring
GoodbyeMatches(m) == m.sid = "none" \/ session_id_ = m.sid

\* A plausible slip: the goodbye handler tears the channel down itself.
OnMessageGoodbyeInline(m) ==
    /\ m.type = "goodbye"
    /\ udp_' = IF GoodbyeMatches(m) THEN "null" ELSE udp_
    /\ LastIncomingUpdated
    /\ UNCHANGED <<mqtt_, channel_mutex_, error_occurred_, session_id_, hello_event>>
    /\ UNCHANGED <<variant, on_closed_registered, on_incoming_json_, own_goodbye, faulted, observed>>
    /\ UNCHANGED <<sessvars, callvars, delivvars, hexvars>>

\* type == "goodbye": Schedule([this]() { CloseAudioChannel(); }) when it matches.
OnMessageGoodbye(m) ==
    /\ m.type = "goodbye"
    /\ IF GoodbyeMatches(m)
       THEN /\ scheduled < MaxSched
            /\ scheduled' = scheduled + 1
       ELSE scheduled' = scheduled
    /\ LastIncomingUpdated
    /\ UNCHANGED <<cpc, open_call, close_call, last_op>>
    /\ UNCHANGED <<variant, on_closed_registered, on_incoming_json_, own_goodbye, faulted, observed>>
    /\ UNCHANGED <<ctrlvars, sessvars, delivvars, hexvars>>

\* The broker delivers the controller's own goodbye back on the subscribed
\* topic: the OnMessage lambda handles it like any goodbye.
OnOwnGoodbye ==
    /\ ~faulted
    /\ d_pc = "idle"
    /\ mqtt_ = "connected"
    /\ own_goodbye # NoMsg
    /\ IF GoodbyeMatches(own_goodbye)
       THEN /\ scheduled < MaxSched
            /\ scheduled' = scheduled + 1
       ELSE scheduled' = scheduled
    /\ LastIncomingUpdated
    /\ own_goodbye' = NoMsg
    /\ UNCHANGED <<cpc, open_call, close_call, last_op>>
    /\ UNCHANGED <<variant, on_closed_registered, on_incoming_json_, faulted, observed>>
    /\ UNCHANGED <<ctrlvars, sessvars, delivvars, hexvars>>

\* Any other type (which in the bare variant includes "hello"): when
\* on_incoming_json_ is set it is called with the parsed message, otherwise
\* the handler goes straight to its tail.
OnMessageOther(m) ==
    /\ m.type = "other" \/ (m.type = "hello" /\ variant = "bare")
    /\ IF on_incoming_json_
       THEN /\ d_pc' = "json"
            /\ dmsg' = m
            /\ UNCHANGED since_last_incoming
       ELSE /\ LastIncomingUpdated
            /\ UNCHANGED <<d_pc, dmsg>>
    /\ UNCHANGED <<variant, on_closed_registered, on_incoming_json_, own_goodbye, faulted, observed>>
    /\ UNCHANGED <<ctrlvars, sessvars, callvars, hello_parsed, hello_signals, hexvars>>

OnMessage(m) ==
    /\ ~faulted
    /\ d_pc = "idle"
    /\ mqtt_ = "connected"
    /\ \/ OnMessageDrop(m)
       \/ OnMessageHello(m)
       \/ OnMessageGoodbye(m)
       \/ OnMessageOther(m)

\* on_incoming_json_(root) has run and returned: the handler's tail runs.
OnIncomingJson ==
    /\ ~faulted
    /\ d_pc = "json"
    /\ LastIncomingUpdated
    /\ d_pc' = "idle"
    /\ dmsg' = NoMsg
    /\ UNCHANGED <<variant, on_closed_registered, on_incoming_json_, own_goodbye, faulted, observed>>
    /\ UNCHANGED <<ctrlvars, sessvars, callvars, hello_parsed, hello_signals, hexvars>>

\* sample_rate and frame_duration a hello's audio_params carries.
HelloAudioParams == <<24000, 20>>

\* A plausible slip: the event bit is set before the udp object is looked at.
ParseServerHelloFieldsSignalsEarly ==
    /\ ~faulted
    /\ d_pc = "psh_fields"
    /\ session_id_' = IF dmsg.sid # "none" THEN dmsg.sid ELSE session_id_
    /\ server_audio_' = IF dmsg.ap THEN HelloAudioParams ELSE server_audio_
    /\ hello_event' = TRUE
    /\ hello_signals' = hello_signals + 1
    /\ d_pc' = IF dmsg.udp = "none" THEN "finish" ELSE "psh_udp"
    /\ dmsg' = IF dmsg.udp = "none" THEN NoMsg ELSE dmsg
    /\ UNCHANGED <<mqtt_, udp_, channel_mutex_, error_occurred_>>
    /\ UNCHANGED <<udp_server_, udp_port_, aes_key_, aes_nonce_, local_sequence_, remote_sequence_>>
    /\ UNCHANGED hello_parsed
    /\ UNCHANGED <<callvars, envvars, hexvars>>

\* session_id and audio_params are stored when present; without a "udp"
\* object ParseServerHello returns here.
ParseServerHelloFields ==
    /\ ~faulted
    /\ d_pc = "psh_fields"
    /\ session_id_' = IF dmsg.sid # "none" THEN dmsg.sid ELSE session_id_
    /\ server_audio_' = IF dmsg.ap THEN HelloAudioParams ELSE server_audio_
    /\ d_pc' = IF dmsg.udp = "none" THEN "finish" ELSE "psh_udp"
    /\ dmsg' = IF dmsg.udp = "none" THEN NoMsg ELSE dmsg
    /\ UNCHANGED <<mqtt_, udp_, channel_mutex_, error_occurred_, hello_event>>
    /\ UNCHANGED <<udp_server_, udp_port_, aes_key_, aes_nonce_, local_sequence_, remote_sequence_>>
    /\ UNCHANGED <<hello_parsed, hello_signals>>
    /\ UNCHANGED <<callvars, envvars, hexvars>>

\* A plausible slip: remote_sequence_ is not reset.
ParseServerHelloUdpKeepsRemote ==
    /\ ~faulted
    /\ d_pc = "psh_udp"
    /\ dmsg.udp \in Endpoints
    /\ udp_server_' = EndpointServer(dmsg.udp)
    /\ udp_port_' = EndpointPort(dmsg.udp)
    /\ aes_nonce_' = DecodeHexString(EndpointNonce(dmsg.udp))
    /\ aes_key_' = DecodeHexString(EndpointKey(dmsg.udp))
    /\ local_sequence_' = 0
    /\ d_pc' = "psh_signal"
    /\ UNCHANGED <<faulted, remote_sequence_>>
    /\ UNCHANGED <<variant, on_closed_registered, on_incoming_json_, own_goodbye, since_last_incoming, observed>>
    /\ UNCHANGED <<ctrlvars, server_audio_, callvars, dmsg, hello_parsed, hello_signals, hexvars>>

\* udp.server, udp.port, udp.key, udp.nonce are read without a null check:
\* a missing "server" traps before anything is written, a missing "key"
\* after udp_server_ and udp_port_ were written.  With all four present the
\* endpoint, nonce and key are installed and both sequence counters reset.
ParseServerHelloUdp ==
    /\ ~faulted
    /\ d_pc = "psh_udp"
    /\ IF dmsg.udp = "noserver"
       THEN /\ faulted' = TRUE
            /\ UNCHANGED <<udp_server_, udp_port_, aes_key_, aes_nonce_, local_sequence_, remote_sequence_, d_pc>>
       ELSE IF dmsg.udp = "nokey"
       THEN /\ faulted' = TRUE
            /\ udp_server_' = EndpointServer("e1")
            /\ udp_port_' = EndpointPort("e1")
            /\ UNCHANGED <<aes_key_, aes_nonce_, local_sequence_, remote_sequence_, d_pc>>
       ELSE /\ faulted' = faulted
            /\ udp_server_' = EndpointServer(dmsg.udp)
            /\ udp_port_' = EndpointPort(dmsg.udp)
            /\ aes_nonce_' = DecodeHexString(EndpointNonce(dmsg.udp))
            /\ aes_key_' = DecodeHexString(EndpointKey(dmsg.udp))
            /\ local_sequence_' = 0
            /\ remote_sequence_' = 0
            /\ d_pc' = "psh_signal"
    /\ UNCHANGED <<variant, on_closed_registered, on_incoming_json_, own_goodbye, since_last_incoming, observed>>
    /\ UNCHANGED <<ctrlvars, server_audio_, callvars, dmsg, hello_parsed, hello_signals, hexvars>>

\* xEventGroupSetBits(event_group_handle_, BEMFA_MQTT_PROTOCOL_SERVER_HELLO_EVENT);
ParseServerHelloSignal ==
    /\ ~faulted
    /\ d_pc = "psh_signal"
    /\ hello_event' = TRUE
    /\ hello_signals' = hello_signals + 1
    /\ hello_parsed' = TRUE
    /\ open_call' = [open_call EXCEPT !.signaled = TRUE]
    /\ d_pc' = "finish"
    /\ dmsg' = NoMsg
    /\ UNCHANGED <<mqtt_, udp_, channel_mutex_, error_occurred_, session_id_>>
    /\ UNCHANGED <<cpc, close_call, last_op, scheduled>>
    /\ UNCHANGED <<sessvars, envvars, hexvars>>

\* ParseServerHello has returned: the handler's tail runs.
OnMessageFinish ==
    /\ ~faulted
    /\ d_pc = "finish"
    /\ LastIncomingUpdated
    /\ d_pc' = "idle"
    /\ hello_signals' = 0
    /\ UNCHANGED dmsg
    /\ UNCHANGED <<variant, on_closed_registered, on_incoming_json_, own_goodbye, faulted, observed>>
    /\ UNCHANGED <<ctrlvars, sessvars, callvars, hello_parsed, hexvars>>

(***************************************************************************)
(* The controller's behaviours.                                            *)
(***************************************************************************)
Next ==
    \/ Start
    \/ OpenAudioChannelEnter
    \/ OpenReset
    \/ OpenSendHello
    \/ OpenWaitSignaled
    \/ OpenWaitTimeout
    \/ CreateUdp
    \/ CloseAudioChannel
    \/ RunScheduled
    \/ CloseCheckAndDelete
    \/ CloseNull
    \/ CloseSendGoodbye
    \/ CloseNotify
    \/ Destructor
    \/ IsAudioChannelOpenedCall
    \/ Tick
    \/ OnDisconnected
    \/ \E m \in Inbound : OnMessage(m)
    \/ OnOwnGoodbye
    \/ OnIncomingJson
    \/ ParseServerHelloFields
    \/ ParseServerHelloUdp
    \/ ParseServerHelloSignal
    \/ OnMessageFinish

Spec == Init /\ [][Next]_vars

(***************************************************************************)
(* Teardown in isolation: a session is set up, the owner calls             *)
(* CloseAudioChannel once, and from then on only the queued tasks, the     *)
(* steps of CloseAudioChannel and the deliveries of the broker run.  The   *)
(* application's main loop runs every queued task, a function that has     *)
(* been entered runs to its end, and the broker delivers what it holds:    *)
(* these steps are weakly fair.                                            *)
(***************************************************************************)
InitTeardown ==
    /\ Init
    /\ on_closed_registered
    /\ on_incoming_json_
    /\ local_sequence_ = 0

\* The hello reply of a well-behaved server.
ValidHello == Msg("hello", "udp", "s1", TRUE, "e1")

\* Everything up to and including the owner's one CloseAudioChannel call.
SetupStep ==
    /\ last_op # "close"
    /\ \/ Start
       \/ OpenAudioChannelEnter
       \/ OpenReset
       \/ OpenSendHello
       \/ OpenWaitSignaled
       \/ OpenWaitTimeout
       \/ CreateUdp
       \/ OnMessage(ValidHello)
       \/ CloseAudioChannel

\* The delivery context finishes the message it is handling.
DeliveryStep ==
    \/ ParseServerHelloFields
    \/ ParseServerHelloUdp
    \/ ParseServerHelloSignal
    \/ OnMessageFinish
    \/ OnIncomingJson

\* CloseAudioChannel proceeds; the main loop runs a queued task.
TeardownStep ==
    \/ RunScheduled
    \/ CloseCheckAndDelete
    \/ CloseNull
    \/ CloseSendGoodbye
    \/ CloseNotify

NextTeardown ==
    \/ SetupStep
    \/ DeliveryStep
    \/ TeardownStep
    \/ OnOwnGoodbye

SpecTeardown ==
    /\ InitTeardown
    /\ [][NextTeardown]_vars
    /\ WF_vars(DeliveryStep)
    /\ WF_vars(TeardownStep)
    /\ WF_vars(OnOwnGoodbye)

(***************************************************************************)
(* DecodeHexString as a pure function: the input is drawn from HexInputs   *)
(* and one step decodes it.                                                *)
(***************************************************************************)
InitHex ==
    /\ InitController
    /\ variant = "full"
    /\ on_closed_registered
    /\ on_incoming_json_
    /\ local_sequence_ = 0
    /\ remote_sequence_ = 0
    /\ hex_string \in HexInputs
    /\ decoded = <<>>
    /\ hex_done = FALSE

Decode ==
    /\ ~hex_done
    /\ decoded' = DecodeHexString(hex_string)
    /\ hex_done' = TRUE
    /\ UNCHANGED <<hex_string, ctrlvars, sessvars, callvars, delivvars, envvars>>

NextHex == Decode

SpecHex == InitHex /\ [][NextHex]_vars

(***************************************************************************)
(* Properties.                                                             *)
(***************************************************************************)
OpenStates == {"o_reset", "o_send", "o_wait"}

CloseStates == {"c_locked", "c_null", "c_send", "c_notify"}

\* The state right after OpenAudioChannel has returned.
OpenReturned == cpc = "idle" /\ last_op = "open"

\* C1: an OpenAudioChannel call that got past the transport stage and saw no
\* hello reply signal the synchronizer returns failure by timeout, and
\* IsAudioChannelOpened() is false when it returns.
C1_TimeoutFailsAndChannelNotOpened ==
    (OpenReturned /\ open_call.fail \notin {"connect", "publish"} /\ ~open_call.signaled)
        => (open_call.ret = "false" /\ open_call.fail = "timeout" /\ ~IsAudioChannelOpened)

\* C2: once a valid hello reply with transport "udp" has been processed,
\* local_sequence_ and remote_sequence_ read 0, and after a successful creation
\* of the datagram handle IsAudioChannelOpened() is true as long as
\* error_occurred_ is false and the liveness window has not elapsed.
C2_SequencesZeroAndOpenedAfterCreate ==
    /\ hello_parsed => (local_sequence_ = 0 /\ remote_sequence_ = 0)
    /\ (hello_parsed /\ cpc = "idle" /\ last_op = "create_ok" /\ ~error_occurred_ /\ ~IsTimeout)
           => IsAudioChannelOpened

C2_Witness ==
    /\ hello_parsed
    /\ cpc = "idle"
    /\ last_op = "create_ok"
    /\ IsAudioChannelOpened
    /\ local_sequence_ = 0
    /\ remote_sequence_ = 0
    /\ aes_key_ # <<>>

\* C3: handling a goodbye queues one CloseAudioChannel task exactly when the
\* message has no session_id or its session_id equals session_id_ at that
\* moment; otherwise nothing is queued; and the handler itself never closes.
C3_GoodbyeSchedulesIffMatching ==
    [][\A m \in GoodbyeMsgs :
          OnMessage(m) =>
              /\ (scheduled' = scheduled + 1) <=> (m.sid = "none" \/ m.sid = session_id_)
              /\ (scheduled' = scheduled) <=> ~(m.sid = "none" \/ m.sid = session_id_)
              /\ cpc' = cpc
              /\ udp_' = udp_]_vars

C3_Witness == scheduled > 0 /\ session_id_ = "s1" /\ cpc = "idle" /\ udp_ = "live"

\* C4 as stated: every CloseAudioChannel call hands a goodbye carrying the
\* current session_id_ to the signaling transport and runs the registered
\* channel-closed notification, also the second of two consecutive calls.
C4_EveryClosePublishesGoodbye ==
    [][/\ (cpc = "c_send" /\ cpc' = "c_notify")
             => (close_call'.pub \in {"sent", "failed"} /\ close_call'.sid = session_id_)
       /\ (cpc = "c_notify" /\ cpc' = "idle" /\ on_closed_registered)
             => close_call'.notified]_vars

\* C4 amended: every CloseAudioChannel call builds a goodbye carrying the
\* current session_id_ and hands it to the signaling client if one exists
\* (with mqtt_ null SendText returns false and nothing is published), runs the
\* notification exactly when one is registered, and the second of two
\* consecutive calls finds the handle absent and leaves it so, without a fault.
C4_CloseIdempotent ==
    [][/\ (cpc = "c_send" /\ cpc' = "c_notify")
             => /\ close_call'.sid = session_id_
                /\ mqtt_ # "null" => close_call'.pub \in {"sent", "failed"}
                /\ mqtt_ = "null" => close_call'.pub = "noclient"
       /\ (cpc = "c_notify" /\ cpc' = "idle")
             => close_call'.notified = on_closed_registered
       /\ (cpc = "c_locked" /\ cpc' # cpc /\ close_call.nth = 2)
             => (udp_ = "null" /\ udp_' = "null" /\ cpc' = "c_send")
       /\ (cpc \in CloseStates /\ cpc' # cpc) => ~faulted']_vars

C4_Witness ==
    /\ cpc = "idle"
    /\ last_op = "close"
    /\ close_call.nth = 2
    /\ close_call.pub = "sent"
    /\ close_call.sid = "s1"
    /\ close_call.notified

\* C5: a hello whose transport is absent or not "udp" leaves session_id_, the
\* audio parameters, the endpoint, key, nonce and both sequence counters as they
\* were, does not set the hello event, is not handed on to the parser, and does
\* not release a waiting OpenAudioChannel.
C5_BadTransportHelloChangesNothing ==
    [][\A m \in HelloMsgs :
          (m.transport # "udp" /\ OnMessage(m)) =>
              /\ UNCHANGED <<session_id_, sessvars, hello_event, hello_parsed>>
              /\ cpc' = cpc
              /\ open_call' = open_call
              /\ d_pc' \notin {"psh_fields", "psh_udp", "psh_signal"}]_vars

C5_Witness ==
    /\ faulted
    /\ d_pc = "idle"
    /\ cpc = "o_wait"
    /\ ~hello_event
    /\ session_id_ = ""

\* C6: IsAudioChannelOpened() never answers true on the strength of a udp_
\* pointer whose object CloseAudioChannel has already deleted.
C6_NeverOpenOnDestroyedHandle == observed # "open_destroyed"

\* The digits' values, as a table.
HexDigitsUpper == <<48, 49, 50, 51, 52, 53, 54, 55, 56, 57, 65, 66, 67, 68, 69, 70>>

HexDigitsLower == <<48, 49, 50, 51, 52, 53, 54, 55, 56, 57, 97, 98, 99, 100, 101, 102>>

Nibble(c) ==
    IF \E k \in 1..16 : HexDigitsUpper[k] = c \/ HexDigitsLower[k] = c
    THEN (CHOOSE k \in 1..16 : HexDigitsUpper[k] = c \/ HexDigitsLower[k] = c) - 1
    ELSE 0

\* C7: an even-length string decodes to len/2 bytes, byte k being
\* 16 * nibble(s[2k]) + nibble(s[2k+1]) with nibble 0 for a non-hex character;
\* "0A1B2C" gives {0x0A, 0x1B, 0x2C} and "" the empty sequence.
C7_DecodeHexStringEven ==
    (hex_done /\ Len(hex_string) % 2 = 0) =>
        /\ Len(decoded) = Len(hex_string) \div 2
        /\ \A k \in 0..(Len(hex_string) \div 2 - 1) :
              decoded[k + 1] = 16 * Nibble(hex_string[2 * k + 1]) + Nibble(hex_string[2 * k + 2])
        /\ hex_string = Str0A1B2C => decoded = <<10, 27, 44>>
        /\ hex_string = <<>> => decoded = <<>>

C7_Witness == hex_done /\ hex_string = Str0A1B2C /\ decoded = <<10, 27, 44>>

C9_SuccessImpliesHelloProcessed ==
    (OpenReturned /\ open_call.ret = "true")
        => /\ open_call.signaled
           /\ hello_parsed
           /\ udp_server_ # ""
           /\ aes_key_ # <<>>
           /\ aes_nonce_ # <<>>
           /\ local_sequence_ = 0
           /\ remote_sequence_ = 0

\* C10: once the reconnect or the hello publish has failed inside
\* OpenAudioChannel, the call has returned false: it never reaches the wait on
\* the synchronizer and makes no second connect or publish attempt.
C10_TransportFailureReturnsFalse ==
    open_call.fail \in {"connect", "publish"}
        => /\ open_call.ret = "false"
           /\ cpc \notin OpenStates
           /\ ~open_call.waited
           /\ open_call.connects <= 1
           /\ open_call.pubs <= 1

C10_Witness ==
    /\ cpc = "idle"
    /\ last_op = "open"
    /\ open_call.fail = "publish"
    /\ open_call.ret = "false"
    /\ open_call.connects = 1

\* C11: a hello with transport "udp" that lacks the udp object, or whose udp
\* object lacks a required field, is dropped by ParseServerHello: session_id_,
\* the audio parameters, the endpoint, key, nonce and both sequence counters
\* keep their values, the hello event is not set, and the controller does not
\* fault.
C11_IncompleteHelloDropped ==
    [][((ParseServerHelloFields \/ ParseServerHelloUdp) /\ dmsg.udp \notin Endpoints)
          => /\ UNCHANGED <<session_id_, sessvars, hello_event, hello_parsed>>
             /\ ~faulted']_vars

\* C12: no step of the delivery context (the OnMessage lambda, ParseServerHello)
\* runs any part of CloseAudioChannel: such a step leaves the caller's
\* position, the handle, the channel lock and the close record alone, and a
\* goodbye at most adds one task to the queue.  A queued task leaves the queue
\* only by the owning context entering CloseAudioChannel.
C12_GoodbyeDefersClose ==
    [][/\ ((\E m \in Inbound : OnMessage(m)) \/ OnOwnGoodbye \/ d_pc' # d_pc)
             => /\ UNCHANGED <<cpc, udp_, channel_mutex_, close_call, last_op>>
                /\ scheduled' \in {scheduled, scheduled + 1}
       /\ ((\E m \in Inbound : OnMessage(m)) /\ scheduled' # scheduled)
             => \E m \in GoodbyeMsgs : OnMessage(m)
       /\ scheduled' < scheduled
             => /\ cpc = "idle"
                /\ cpc' = "c_locked"
                /\ close_call'.by = "task"
                /\ UNCHANGED <<d_pc, dmsg>>
       /\ (close_call'.by = "task" /\ close_call.by # "task")
             => scheduled' = scheduled - 1]_vars

C12_Witness ==
    /\ cpc = "idle"
    /\ last_op = "close"
    /\ close_call.by = "task"
    /\ close_call.pub = "sent"
    /\ udp_ = "null"
    /\ scheduled = 0

\* C13: the datagram handle's object is destroyed only by a step that holds
\* channel_mutex_ (the destructor's delete included), and channel_mutex_ is free
\* while CloseAudioChannel publishes the goodbye and runs the notification.
C13_HandleChangesUnderLock ==
    [][/\ (udp_ = "live" /\ udp_' = "dangling") => channel_mutex_ = "caller"
       /\ cpc \in {"c_send", "c_notify"} => channel_mutex_ = "free"]_vars

\* C14: within one invocation of ParseServerHello the hello event is set at
\* most once; a hello with transport "udp" and a complete udp object sets it
\* exactly once, a hello that ParseServerHello gives up on sets it not at all;
\* and the event is set by no step other than ParseServerHello's last one.
C14_SignalOncePerValidHello ==
    [][/\ hello_signals' <= 1
       /\ (d_pc = "psh_udp" /\ d_pc' # d_pc /\ dmsg.udp \in Endpoints)
             => (d_pc' = "psh_signal" /\ hello_signals' = 0)
       /\ (d_pc = "psh_signal" /\ d_pc' # d_pc)
             => (hello_signals' = 1 /\ hello_event' /\ d_pc' = "finish")
       /\ (d_pc = "psh_fields" /\ d_pc' = "finish")
             => (hello_signals' = 0 /\ hello_event' = hello_event)
       /\ (\E m \in Inbound : OnMessage(m))
             => (hello_signals' = 0 /\ hello_event' = hello_event)
       /\ (hello_event' /\ ~hello_event)
             => (d_pc = "psh_signal" /\ dmsg.transport = "udp" /\ dmsg.udp \in Endpoints)
       /\ hello_signals' # hello_signals
             => (d_pc = "psh_signal" \/ d_pc = "finish")]_vars

C14_Witness ==
    /\ d_pc = "finish"
    /\ hello_signals = 1
    /\ hello_event
    /\ cpc = "o_wait"

\* The messages cJSON_Parse accepts and that carry a "type".
TypedMsgs == {m \in Inbound : m.type \notin {"unparsable", "notype"}}

\* C15: the handling of every message that parses and carries a type, whatever
\* the type and whether or not a hello is accepted, runs to the handler's end
\* and sets last_incoming_time_ there; a message that does not parse or has no
\* type leaves last_incoming_time_ and all session state as they were.
C15_TypedMessagesRefreshLastIncoming ==
    [][/\ \A m \in TypedMsgs :
             OnMessage(m) => (~faulted' /\ (d_pc' = "idle" => since_last_incoming' = 0))
       /\ (ParseServerHelloFields \/ ParseServerHelloUdp \/ ParseServerHelloSignal \/ OnMessageFinish)
             => (~faulted' /\ d_pc' # d_pc /\ (d_pc' = "idle" => since_last_incoming' = 0))
       /\ \A m \in Inbound \ TypedMsgs :
             OnMessage(m) => UNCHANGED <<since_last_incoming, ctrlvars, sessvars, callvars, delivvars>>]_vars

\* C16: the OnMessage lambda routes by type: a "hello" goes to ParseServerHello
\* and a "goodbye" to the goodbye handling, and neither is ever handed to
\* on_incoming_json_; a message of any other type is handed to on_incoming_json_
\* once when it is set, and to nothing when it is not.
C16_DispatchByType ==
    [][/\ \A m \in Inbound :
             OnMessage(m) =>
                 /\ m.type = "hello" => (OnMessageHello(m) /\ d_pc' # "json")
                 /\ m.type = "goodbye" => (OnMessageGoodbye(m) /\ d_pc' # "json")
                 /\ m.type = "other" => IF on_incoming_json_
                                        THEN d_pc' = "json" /\ dmsg' = m
                                        ELSE d_pc' = "idle"
       /\ d_pc' = "json" => dmsg'.type \notin {"hello", "goodbye"}
       /\ (d_pc = "json" /\ d_pc' # d_pc) => d_pc' = "idle"]_vars

\* C17: the signaling client is created or connected only by a step that
\* enters a caller-invoked Start or OpenAudioChannel; apart from those, mqtt_
\* changes only by the connection dropping and by the destructor.  The
\* disconnect notification leaves the caller's position and records alone, a
\* failed connect or a failed publish ends the call, and one OpenAudioChannel
\* call makes at most one connect and one publish attempt.
C17_ConnectOnlyOnCallerRequest ==
    [][/\ mqtt_' # mqtt_
             => \/ cpc = "idle" /\ last_op' \in {"start", "open"}
                \/ cpc = "idle" /\ cpc' = "destroyed" /\ mqtt_' = "null"
                \/ mqtt_ = "connected" /\ mqtt_' = "disconnected" /\ UNCHANGED callvars
       /\ (mqtt_' = "connected" /\ mqtt_ # "connected")
             => (cpc = "idle" /\ cpc' \in {"idle", "o_reset"} /\ last_op' \in {"start", "open"})
       /\ OnDisconnected => UNCHANGED <<callvars, delivvars>>
       /\ (open_call'.fail \in {"connect", "publish"} /\ open_call.fail = "none")
             => (cpc' = "idle" /\ open_call'.ret = "false")
       /\ (cpc = "c_send" /\ cpc' # cpc) => (cpc' = "c_notify" /\ mqtt_' = mqtt_)
       /\ open_call'.connects <= 1
       /\ open_call'.pubs <= 1]_vars

C17_Witness ==
    /\ mqtt_ = "disconnected"
    /\ cpc = "o_wait"
    /\ open_call.connects = 0
    /\ open_call.pubs = 1
    /\ ~hello_event

\* C18: within one OpenAudioChannel call the hello event is cleared before
\* the hello is published and by nothing else until the wait returns, so the
\* signal of a valid hello processed after the publish stays set, also when it
\* comes before the caller waits; with the event set the wait returns
\* success, and the call times out only with the event clear.
C18_NoLostWakeup ==
    [][/\ (cpc = "o_reset" /\ cpc' = "o_send") => ~hello_event'
       /\ (cpc \in {"o_send", "o_wait"} /\ cpc' \in {"o_send", "o_wait"} /\ hello_event)
             => hello_event'
       /\ (cpc = "o_wait" /\ ParseServerHelloSignal) => (hello_event' /\ cpc' = "o_wait")
       /\ (cpc = "o_wait" /\ cpc' # cpc /\ hello_event)
             => (cpc' = "idle" /\ open_call'.ret = "true" /\ error_occurred_' = error_occurred_)
       /\ (cpc = "o_wait" /\ cpc' # cpc /\ open_call'.ret # "true")
             => (~hello_event /\ ~open_call.signaled)]_vars

C18_Witness ==
    /\ cpc = "idle"
    /\ last_op = "open"
    /\ open_call.ret = "true"
    /\ open_call.waited
    /\ open_call.signaled
    /\ ~hello_event
    /\ ~error_occurred_

\* C19: after the owner's one CloseAudioChannel call only finitely many
\* goodbyes are published and only finitely many CloseAudioChannel tasks are
\* queued: from some point on no step publishes a goodbye or adds a task, also
\* when the broker delivers the controller's own goodbye back to it.
C19_TeardownTerminates ==
    <>[][~CloseSendGoodbye /\ scheduled' <= scheduled]_vars

\* C20: a hello that ParseServerHello processes while no OpenAudioChannel call
\* is waiting on the hello event (unsolicited, or after the wait has timed out)
\* leaves session_id_, the endpoint, key, nonce and both sequence counters as
\* they were.
C20_UnsolicitedHelloChangesNothing ==
    [][((ParseServerHelloFields \/ ParseServerHelloUdp) /\ cpc # "o_wait")
          => UNCHANGED <<session_id_, udp_server_, udp_port_, aes_key_, aes_nonce_, local_sequence_, remote_sequence_>>]_vars

\* C21: a string of odd length n decodes to (n+1)/2 bytes: the last byte is
\* 16 * nibble(final character), its low half 0, and the bytes before it are
\* the decoding of the first n-1 characters.
C21_DecodeHexStringOdd ==
    (hex_done /\ Len(hex_string) % 2 = 1) =>
        LET n == Len(hex_string)
        IN /\ Len(decoded) = (n + 1) \div 2
           /\ decoded[(n + 1) \div 2] = 16 * Nibble(hex_string[n])
           /\ decoded[(n + 1) \div 2] % 16 = 0
           /\ SubSeq(decoded, 1, (n - 1) \div 2) = DecodeHexString(SubSeq(hex_string, 1, n - 1))
           /\ \A k \in 0..((n - 1) \div 2 - 1) :
                 decoded[k + 1] = 16 * Nibble(hex_string[2 * k + 1]) + Nibble(hex_string[2 * k + 2])

\* "1Bf" decodes to {0x1B, 0xF0}.
C21_Witness == hex_done /\ hex_string = <<49, 66, 102>> /\ decoded = <<27, 240>>

====
